---------------------------- MODULE Spec2Model ----------------------------
(***************************************************************************)
(* SupplyChainAnalyzer (src/analyzer.py) and the script src/main.py.       *)
(*                                                                         *)
(* A DataFrame is a record [columns, rows]: the set of column labels and   *)
(* the sequence of rows; the row at position i carries the index label     *)
(* i - 1 (the RangeIndex read_csv builds).  Cells are strings or integers; *)
(* a mean is kept exact as the pair (sum, count) where it is compared and  *)
(* as hundredths, rounded half to even, where the code calls .round(2).    *)
(* Tables are complete: a cell is never missing (NaN).                     *)
(***************************************************************************)
EXTENDS Integers, Sequences, FiniteSets, TLC

VARIABLES
    file,               \* what data_path names on disk: "missing" or a DataFrame
    data,               \* self.data
    product_metrics,    \* self.product_metrics
    supplier_metrics,   \* self.supplier_metrics
    logistics_metrics,  \* self.logistics_metrics
    ret,                \* the last call: [method, raised, value]
    seen,               \* what get_risk_assessment / generate_recommendations returned last
    invoked,            \* the analysis and scoring methods invoked so far
    quicksort_ties,     \* how this build's kind='quicksort' argsort leaves equal keys
    pc                  \* "api" for a caller of the class, or the line of main.py to run

vars == <<file, data, product_metrics, supplier_metrics, logistics_metrics,
          ret, seen, invoked, quicksort_ties, pc>>

-----------------------------------------------------------------------------
(* Bounds of the model *)

MaxRiskRows == 2
MaxRecRows == 3
MaxGroupRows == 2
MaxLongRows == 11
MaxApiRows == 3

-----------------------------------------------------------------------------
(* Python's None, and the columns the analyzer reads *)

None == [None |-> TRUE]

AllColumns ==
    {"SKU", "Product_type", "Revenue_generated", "Number_of_products_sold",
     "Stock_levels", "Lead_times", "Lead_time", "Defect_rates",
     "Supplier_name", "Location", "Manufacturing_costs", "Production_volumes",
     "Inspection_results", "Shipping_carriers", "Shipping_times",
     "Shipping_costs", "Transportation_modes", "Routes", "Costs"}

(* The strings of the model in Python's string order (the order a sorted   *)
(* groupby compares keys by).                                              *)
StringOrder ==
    <<"Air", "Carrier A", "Carrier B", "Delhi", "Fail", "Mumbai", "Pass",
      "Road", "Route A", "Route B", "SKU0", "SKU1", "Supplier 1",
      "Supplier 2", "haircare", "skincare">>

Rank(s) == CHOOSE i \in 1..Len(StringOrder) : StringOrder[i] = s

(* A groupby key is the tuple of the values of the group-by columns; key a *)
(* sorts before key b as tuples compare, left to right.                    *)
RECURSIVE KeyLess(_, _)
KeyLess(a, b) ==
    IF Len(a) = 0 \/ Len(b) = 0 THEN Len(a) < Len(b)
    ELSE IF a[1] = b[1] THEN KeyLess(Tail(a), Tail(b))
    ELSE Rank(a[1]) < Rank(b[1])

-----------------------------------------------------------------------------
(* Arithmetic *)

RECURSIVE SeqSum(_)
SeqSum(s) == IF s = <<>> THEN 0 ELSE s[1] + SeqSum(Tail(s))

RECURSIVE Pow10(_)
Pow10(k) == IF k = 0 THEN 1 ELSE 10 * Pow10(k - 1)

(* num/den rounded to an integer, a half going to the even neighbour *)
RoundHalfEven(num, den) ==
    LET q == num \div den
        r == num % den
    IN  IF 2 * r < den THEN q
        ELSE IF 2 * r > den THEN q + 1
        ELSE IF q % 2 = 0 THEN q ELSE q + 1

(* DataFrame.round(decimals) of the number num/den, in units of 10^-decimals *)
round(num, den, decimals) == RoundHalfEven(num * Pow10(decimals), den)

SeqMin(s) == CHOOSE x \in {s[i] : i \in 1..Len(s)} : \A j \in 1..Len(s) : x <= s[j]
SeqMax(s) == CHOOSE x \in {s[i] : i \in 1..Len(s)} : \A j \in 1..Len(s) : x >= s[j]

(* the elements of the finite set S as the sequence that before orders;    *)
(* before is a strict total order on S, the set of its pairs <<f, e>>      *)
SortBy(S, before) ==
    [p \in 1..Cardinality(S) |->
        CHOOSE e \in S : Cardinality({f \in S : <<f, e>> \in before}) = p - 1]

-----------------------------------------------------------------------------
(* DataFrame operations *)

(* the rows of df, each with its index label *)
Indexed(df) == [i \in 1..Len(df.rows) |-> [idx |-> i - 1, row |-> df.rows[i]]]

(* df[cols] of one indexed row: the index label and the chosen columns *)
Project(ir, cols) ==
    [c \in cols \union {"idx"} |-> IF c = "idx" THEN ir.idx ELSE ir.row[c]]

(* frame[cols] of a sequence of indexed rows, their order kept *)
Columns(kept, cols) == [i \in 1..Len(kept) |-> Project(kept[i], cols)]

(* Series.mean() compared exactly: x > mean(values).  The mean of an      *)
(* empty column is NaN and every comparison with NaN is False.             *)
GreaterThanMean(x, values) ==
    Len(values) > 0 /\ x * Len(values) > SeqSum(values)

(* x > values.mean() + values.std(), std being the sample deviation       *)
(* (ddof = 1), NaN for fewer than two values.  With n values of sum S and  *)
(* d = n*x - S:  x - mean > std  iff  d > 0 and d^2 (n-1) > SUM (n*v-S)^2. *)
GreaterThanMeanPlusStd(x, values) ==
    LET n == Len(values)
        S == SeqSum(values)
        d == n * x - S
        Q == SeqSum([i \in 1..n |-> (n * values[i] - S) * (n * values[i] - S)])
    IN  n >= 2 /\ d > 0 /\ d * d * (n - 1) > Q

Column(df, c) == [i \in 1..Len(df.rows) |-> df.rows[i][c]]

(* One aggregation of a groupby: the function applied to the values of a   *)
(* column within one group, then .round(2), in hundredths ('size' is not   *)
(* rounded: it is not followed by .round)                                  *)
Agg(func, values) ==
    CASE func = "sum"   -> round(SeqSum(values), 1, 2)
      [] func = "mean"  -> round(SeqSum(values), Len(values), 2)
      [] func = "count" -> round(Len(values), 1, 2)
      [] func = "size"  -> Len(values)
      [] func = "min"   -> round(SeqMin(values), 1, 2)
      [] func = "max"   -> round(SeqMax(values), 1, 2)

(* the key of a row under groupby(by): the tuple of its by-columns *)
KeyOf(row, by) == [j \in 1..Len(by) |-> row[by[j]]]

(* group keys in the order of their first appearance (sort=False) *)
GroupKeys_Unsorted(df, by) ==
    LET keys == {KeyOf(df.rows[i], by) : i \in 1..Len(df.rows)}
        first(k) == CHOOSE i \in 1..Len(df.rows) :
                        /\ KeyOf(df.rows[i], by) = k
                        /\ \A j \in 1..(i - 1) : KeyOf(df.rows[j], by) # k
    IN  SortBy(keys, {p \in keys \X keys : first(p[1]) < first(p[2])})

(* groupby's default is sort=True: the group keys, each once, in sorted    *)
(* order                                                                   *)
GroupKeys(df, by) ==
    LET keys == {KeyOf(df.rows[i], by) : i \in 1..Len(df.rows)}
    IN  SortBy(keys, {p \in keys \X keys : KeyLess(p[1], p[2])})

(* df.groupby(by).agg(aggs).round(2): one row per group key, in the        *)
(* order of GroupKeys; aggs is a set of [name, column, func], name naming  *)
(* the output column.                                                      *)
GroupByAgg(df, by, aggs) ==
    LET keys == GroupKeys(df, by)
        group(k) == SelectSeq(df.rows, LAMBDA r : KeyOf(r, by) = k)
        values(k, c) == [i \in 1..Len(group(k)) |-> group(k)[i][c]]
        names == {a.name : a \in aggs}
        agg(n) == CHOOSE a \in aggs : a.name = n
    IN  [g \in 1..Len(keys) |->
            [c \in names \union {"key"} |->
                IF c = "key" THEN keys[g]
                ELSE Agg(agg(c).func, values(keys[g], agg(c).column))]]

(* Series.sort_values(ascending=False, kind=...) as the order of the rows. *)
(* A stable kind leaves equal values in source order; kind='quicksort',    *)
(* the default, is not stable, and where it leaves equal values is a       *)
(* property of the build: quicksort_ties.                                  *)
sort_values_descending(df, column, kind) ==
    LET stable == kind = "mergesort" \/ quicksort_ties = "kept"
        Before(f, e) ==
            \/ f.row[column] > e.row[column]
            \/ /\ f.row[column] = e.row[column]
               /\ IF stable THEN f.idx < e.idx ELSE f.idx > e.idx
        S == {Indexed(df)[i] : i \in 1..Len(df.rows)}
    IN  SortBy(S, {p \in S \X S : Before(p[1], p[2])})

head(s, n) == SubSeq(s, 1, IF n < Len(s) THEN n ELSE Len(s))

(* DataFrame.nlargest(n, column), keep='first' (pandas SelectNSeries):     *)
(* with n >= len(df) it is sort_values(ascending=False).head(n), default   *)
(* kind; otherwise the rows not below the n-th largest value are argsorted *)
(* with kind='mergesort' and the first n of them are taken.                *)
nlargest(df, n, column) ==
    IF n <= 0 THEN <<>>
    ELSE IF n >= Len(df.rows)
         THEN head(sort_values_descending(df, column, "quicksort"), n)
         ELSE head(sort_values_descending(df, column, "mergesort"), n)


-----------------------------------------------------------------------------
(* The values the methods compute *)

A(name, column, func) == [name |-> name, column |-> column, func |-> func]

(* a stock alert mask that compares with <= *)
StockAlert_AtMost20(ir) == ir.row["Stock_levels"] <= 20

(* analyze_product_performance: the mask of stock_alerts *)
StockAlert(ir) == ir.row["Stock_levels"] < 20

(* analyze_product_performance, the dict it stores *)
ProductMetrics(df) ==
    [category_performance |->
        GroupByAgg(df, <<"Product_type">>,
            {A("Revenue_generated", "Revenue_generated", "sum"),
             A("Number_of_products_sold", "Number_of_products_sold", "sum"),
             A("Stock_levels", "Stock_levels", "mean"),
             A("Defect_rates", "Defect_rates", "mean")}),
     top_revenue_products |->
        Columns(nlargest(df, 10, "Revenue_generated"),
                {"SKU", "Product_type", "Revenue_generated",
                 "Number_of_products_sold"}),
     stock_alerts |->
        Columns(SelectSeq(Indexed(df), StockAlert),
                {"SKU", "Product_type", "Stock_levels", "Lead_times"})]

ProductColumns ==
    {"Product_type", "Revenue_generated", "Number_of_products_sold",
     "Stock_levels", "Defect_rates", "SKU", "Lead_times"}

(* analyze_supplier_performance, the dict it stores *)
SupplierMetrics(df) ==
    [supplier_performance |->
        GroupByAgg(df, <<"Supplier_name">>,
            {A("Lead_time", "Lead_time", "mean"),
             A("Manufacturing_costs", "Manufacturing_costs", "mean"),
             A("Defect_rates", "Defect_rates", "mean"),
             A("Production_volumes", "Production_volumes", "sum")}),
     supplier_locations |->
        LET sizes == GroupByAgg(df, <<"Supplier_name", "Location">>,
                                {A("shipment_count", "Location", "size")})
        IN  [g \in 1..Len(sizes) |->
                [idx |-> g - 1,
                 Supplier_name |-> sizes[g].key[1],
                 Location |-> sizes[g].key[2],
                 shipment_count |-> sizes[g].shipment_count]],
     quality_issues |->
        Columns(SelectSeq(Indexed(df),
                          LAMBDA ir : ir.row["Inspection_results"] = "Fail"),
                {"Supplier_name", "SKU", "Defect_rates"})]

SupplierColumns ==
    {"Supplier_name", "Lead_time", "Manufacturing_costs", "Defect_rates",
     "Production_volumes", "Location", "Inspection_results", "SKU"}

(* analyze_logistics, the dict it stores *)
LogisticsMetrics(df) ==
    [carrier_performance |->
        GroupByAgg(df, <<"Shipping_carriers">>,
            {A("Shipping_times", "Shipping_times", "mean"),
             A("Shipping_costs", "Shipping_costs", "mean"),
             A("Number_of_products_sold", "Number_of_products_sold", "count")}),
     transport_cost_analysis |->
        GroupByAgg(df, <<"Transportation_modes", "Routes">>,
            {A("Costs", "Costs", "mean"),
             A("Shipping_times", "Shipping_times", "mean")}),
     route_efficiency |->
        GroupByAgg(df, <<"Routes">>,
            {A("Shipping_times_mean", "Shipping_times", "mean"),
             A("Shipping_times_min", "Shipping_times", "min"),
             A("Shipping_times_max", "Shipping_times", "max"),
             A("Costs_mean", "Costs", "mean")})]

LogisticsColumns ==
    {"Shipping_carriers", "Shipping_times", "Shipping_costs",
     "Number_of_products_sold", "Transportation_modes", "Routes", "Costs"}

BoolToInt(b) == IF b THEN 1 ELSE 0

(* get_risk_assessment: the four columns of risk_factors, for the row r *)
Stock_Risk(r) == r["Stock_levels"] < 20

Lead_Time_Risk(r) == r["Lead_time"] > 20

Quality_Risk(r) == r["Defect_rates"] > 3

(* a Cost_Risk that compares with >= *)
Cost_Risk_AtLeastMean(r, df) ==
    /\ Len(df.rows) > 0
    /\ r["Manufacturing_costs"] * Len(df.rows)
            >= SeqSum(Column(df, "Manufacturing_costs"))

Cost_Risk(r, df) ==
    GreaterThanMean(r["Manufacturing_costs"], Column(df, "Manufacturing_costs"))

(* get_risk_assessment: the risk_factors frame with its Total_Risk_Score,  *)
(* the row sum of the four boolean columns                                 *)
risk_factors(df) ==
    [i \in 1..Len(df.rows) |->
        LET r == df.rows[i]
        IN  [idx |-> i - 1,
             SKU |-> r["SKU"],
             Stock_Risk |-> Stock_Risk(r),
             Lead_Time_Risk |-> Lead_Time_Risk(r),
             Quality_Risk |-> Quality_Risk(r),
             Cost_Risk |-> Cost_Risk(r, df),
             Total_Risk_Score |->
                BoolToInt(Stock_Risk(r)) + BoolToInt(Lead_Time_Risk(r))
                + BoolToInt(Quality_Risk(r)) + BoolToInt(Cost_Risk(r, df))]]

(* a filter that keeps the scores above 2 *)
RiskAssessment_Above2(df) ==
    SelectSeq(risk_factors(df), LAMBDA rf : rf.Total_Risk_Score > 2)

(* get_risk_assessment, the frame it returns *)
RiskAssessment(df) ==
    SelectSeq(risk_factors(df), LAMBDA rf : rf.Total_Risk_Score >= 2)

RiskColumns ==
    {"SKU", "Stock_levels", "Lead_time", "Defect_rates", "Manufacturing_costs"}

(* a low_stock read from the stock_alerts an earlier                       *)
(* analyze_product_performance stored                                      *)
low_stock_cached(df) ==
    IF product_metrics = None THEN <<>> ELSE product_metrics.stock_alerts

(* generate_recommendations: low_stock, the rows below the stock level *)
low_stock(df) == SelectSeq(df.rows, LAMBDA r : r["Stock_levels"] < 20)

(* a high-cost mask that leaves the deviation out *)
HighCost_AboveMean(r, df) == GreaterThanMean(r["Costs"], Column(df, "Costs"))

(* generate_recommendations: the mask of high_cost_routes *)
HighCost(r, df) == GreaterThanMeanPlusStd(r["Costs"], Column(df, "Costs"))

(* generate_recommendations, the list it returns *)
Recommendations(df) ==
    LET quality_issues ==
            SelectSeq(df.rows, LAMBDA r : r["Inspection_results"] = "Fail")
        high_cost_routes ==
            SelectSeq(df.rows, LAMBDA r : HighCost(r, df))
        inventory ==
            IF Len(low_stock(df)) # 0
            THEN <<[area |-> "Inventory",
                    issue |-> "Low stock alerts for " \o ToString(Len(low_stock(df)))
                              \o " SKUs",
                    action |-> "Reorder stocks for affected SKUs",
                    priority |-> "High"]>>
            ELSE <<>>
        quality ==
            IF Len(quality_issues) # 0
            THEN <<[area |-> "Quality",
                    issue |-> "Quality failures in "
                              \o ToString(Len(quality_issues)) \o " shipments",
                    action |-> "Review supplier quality control processes",
                    priority |-> "High"]>>
            ELSE <<>>
        logistics ==
            IF Len(high_cost_routes) # 0
            THEN <<[area |-> "Logistics",
                    issue |-> "High shipping costs on "
                              \o ToString(Len(high_cost_routes)) \o " routes",
                    action |-> "Evaluate alternative shipping routes or carriers",
                    priority |-> "Medium"]>>
            ELSE <<>>
    IN  inventory \o quality \o logistics

RecommendationColumns == {"Stock_levels", "Inspection_results", "Costs"}

(* a truth test that takes a dict of empty tables for false *)
Truthy_SomeRows(m) == m # None /\ \E k \in DOMAIN m : Len(m[k]) # 0

(* Python truth of a slot: None is false, a dict is true unless it has no  *)
(* keys                                                                    *)
Truthy(m) == m # None /\ DOMAIN m # {}

(* Series.mean() of a whole column, exact: sum over count (count 0: NaN)   *)
Mean(values) == [num |-> SeqSum(values), den |-> Len(values)]

(* generate_summary_report, the dict it returns *)
SummaryReport(df, product, supplier, logistics) ==
    [overall_metrics |->
        [Total_Revenue |-> SeqSum(Column(df, "Revenue_generated")),
         Total_Units_Sold |-> SeqSum(Column(df, "Number_of_products_sold")),
         Average_Defect_Rate |-> Mean(Column(df, "Defect_rates")),
         Average_Lead_Time |-> Mean(Column(df, "Lead_time"))],
     Product_Performance |-> IF Truthy(product) THEN product ELSE None,
     Supplier_Performance |-> IF Truthy(supplier) THEN supplier ELSE None,
     Logistics_Performance |-> IF Truthy(logistics) THEN logistics ELSE None]

SummaryColumns ==
    {"Revenue_generated", "Number_of_products_sold", "Defect_rates", "Lead_time"}

(* visualize_data: the columns its four plots read *)
VisualizeColumns ==
    {"Product_type", "Revenue_generated", "Stock_levels", "Shipping_costs",
     "Transportation_modes"}


-----------------------------------------------------------------------------
(* The tables the model loads *)

DefaultRow ==
    [SKU |-> "SKU0", Product_type |-> "skincare", Revenue_generated |-> 5,
     Number_of_products_sold |-> 2, Stock_levels |-> 20, Lead_times |-> 7,
     Lead_time |-> 20, Defect_rates |-> 3, Supplier_name |-> "Supplier 2",
     Location |-> "Mumbai", Manufacturing_costs |-> 1,
     Production_volumes |-> 4, Inspection_results |-> "Pass",
     Shipping_carriers |-> "Carrier B", Shipping_times |-> 3,
     Shipping_costs |-> 6, Transportation_modes |-> "Road",
     Routes |-> "Route B", Costs |-> 1]

(* rows on either side of each risk threshold *)
RiskRows ==
    {[DefaultRow EXCEPT !.Stock_levels = s, !.Lead_time = l,
                        !.Defect_rates = q, !.Manufacturing_costs = c] :
        s \in {19, 20}, l \in {20, 21}, q \in {3, 4}, c \in {1, 3}}

(* rows that do or do not trigger each recommendation rule *)
RecRows ==
    {[DefaultRow EXCEPT !.Stock_levels = s, !.Inspection_results = r,
                        !.Costs = c] :
        s \in {19, 20}, r \in {"Pass", "Fail"}, c \in {1, 4}}

(* rows of different groups and revenues *)
GroupRows ==
    {[DefaultRow EXCEPT !.Product_type = g[1], !.Supplier_name = g[2],
                        !.Location = g[3], !.Shipping_carriers = g[4],
                        !.Routes = r, !.Transportation_modes = m,
                        !.Revenue_generated = v, !.Shipping_times = v - 2] :
        g \in {<<"skincare", "Supplier 2", "Mumbai", "Carrier B">>,
               <<"haircare", "Supplier 1", "Delhi", "Carrier A">>},
        r \in {"Route B", "Route A"}, m \in {"Road", "Air"}, v \in {5, 7}}

(* rows of a table longer than the ten rows nlargest keeps *)
LongRows == {[DefaultRow EXCEPT !.Revenue_generated = v] : v \in {5, 7}}

SeqsUpTo(S, lo, hi) == UNION {[1..n -> S] : n \in lo..hi}

Frame(rows) == [columns |-> AllColumns, rows |-> rows]

Tables ==
    {Frame(rows) : rows \in SeqsUpTo(RiskRows, 0, MaxRiskRows)
                        \union SeqsUpTo(RecRows, 0, MaxRecRows)
                        \union SeqsUpTo(GroupRows, 0, MaxGroupRows)
                        \union SeqsUpTo(LongRows, 11, MaxLongRows)}

(* rows for a caller's sequences of calls: low or sufficient stock, a      *)
(* passed cheap shipment or a failed dear one                              *)
ApiRows ==
    {[DefaultRow EXCEPT !.Stock_levels = s, !.Inspection_results = q[1],
                        !.Costs = q[2]] :
        s \in {19, 20}, q \in {<<"Pass", 1>>, <<"Fail", 4>>}}

ApiTables == {Frame(rows) : rows \in SeqsUpTo(ApiRows, 0, MaxApiRows)}

(* a CSV file on disk: absent, or a table, possibly without one column *)
DropColumn(df, c) ==
    [columns |-> df.columns \ {c},
     rows |-> [i \in 1..Len(df.rows) |->
                 [k \in df.columns \ {c} |-> df.rows[i][k]]]]

OnDisk(df) == [exists |-> TRUE, columns |-> df.columns, rows |-> df.rows]

NoFile == [exists |-> FALSE, columns |-> {}, rows |-> <<>>]

Files ==
    {NoFile}
    \union {OnDisk(t) : t \in ApiTables}
    \union {OnDisk(DropColumn(t, c)) : t \in ApiTables, c \in AllColumns}

-----------------------------------------------------------------------------
(* Calls and what they return *)

(* again: the method had been invoked on the instance before this call *)
Returned(method, value) ==
    [method |-> method, raised |-> "", value |-> value,
     again |-> method \in invoked]

Raised(method, exception) ==
    [method |-> method, raised |-> exception, value |-> None,
     again |-> method \in invoked]

NotCalled == [called |-> FALSE, value |-> <<>>]

Was(value) == [called |-> TRUE, value |-> value]

(* pd.read_csv(data): the table of the file; a file that is not there      *)
(* raises FileNotFoundError.  The header is not compared with any schema.  *)
read_csv(f) == [columns |-> f.columns, rows |-> f.rows]

(* a loader that also rejects a table without one of the columns *)
LoadFails_Schema(f) == ~f.exists \/ f.columns # AllColumns

(* whether pd.read_csv(data) raises: only for a file that is not there *)
LoadFails(f) == ~f.exists

(* the instance __init__ leaves: the table loaded, the three slots None *)
Constructed(f) ==
    /\ data = read_csv(f)
    /\ product_metrics = None
    /\ supplier_metrics = None
    /\ logistics_metrics = None


-----------------------------------------------------------------------------
(* The methods of SupplyChainAnalyzer.  Each is the whole call: what it    *)
(* stores, what it returns or raises.  A column the method reads and the   *)
(* table lacks raises KeyError before anything is stored.  pc is left to   *)
(* the caller.                                                             *)

(* an analyze_product_performance that appends the new stock alerts to the *)
(* ones an earlier call stored                                             *)
analyze_product_performance_Appending ==
    /\ invoked' = invoked \union {"analyze_product_performance"}
    /\ IF ProductColumns \subseteq data.columns
       THEN /\ product_metrics' =
                  IF product_metrics = None THEN ProductMetrics(data)
                  ELSE [ProductMetrics(data) EXCEPT !.stock_alerts =
                            product_metrics.stock_alerts \o @]
            /\ ret' = Returned("analyze_product_performance", None)
       ELSE /\ product_metrics' = product_metrics
            /\ ret' = Raised("analyze_product_performance", "KeyError")
    /\ UNCHANGED <<file, data, supplier_metrics, logistics_metrics, seen,
                   quicksort_ties>>

analyze_product_performance ==
    /\ invoked' = invoked \union {"analyze_product_performance"}
    /\ IF ProductColumns \subseteq data.columns
       THEN /\ product_metrics' = ProductMetrics(data)
            /\ ret' = Returned("analyze_product_performance", None)
       ELSE /\ product_metrics' = product_metrics
            /\ ret' = Raised("analyze_product_performance", "KeyError")
    /\ UNCHANGED <<file, data, supplier_metrics, logistics_metrics, seen,
                   quicksort_ties>>

analyze_supplier_performance ==
    /\ invoked' = invoked \union {"analyze_supplier_performance"}
    /\ IF SupplierColumns \subseteq data.columns
       THEN /\ supplier_metrics' = SupplierMetrics(data)
            /\ ret' = Returned("analyze_supplier_performance", None)
       ELSE /\ supplier_metrics' = supplier_metrics
            /\ ret' = Raised("analyze_supplier_performance", "KeyError")
    /\ UNCHANGED <<file, data, product_metrics, logistics_metrics, seen,
                   quicksort_ties>>

analyze_logistics ==
    /\ invoked' = invoked \union {"analyze_logistics"}
    /\ IF LogisticsColumns \subseteq data.columns
       THEN /\ logistics_metrics' = LogisticsMetrics(data)
            /\ ret' = Returned("analyze_logistics", None)
       ELSE /\ logistics_metrics' = logistics_metrics
            /\ ret' = Raised("analyze_logistics", "KeyError")
    /\ UNCHANGED <<file, data, product_metrics, supplier_metrics, seen,
                   quicksort_ties>>

(* a risk assessment that adds its score column to the loaded table       *)
(* instead of to a frame of its own                                        *)
get_risk_assessment_InPlace ==
    /\ invoked' = invoked \union {"get_risk_assessment"}
    /\ IF RiskColumns \subseteq data.columns
       THEN /\ ret' = Returned("get_risk_assessment", RiskAssessment(data))
            /\ seen' = [seen EXCEPT !.get_risk_assessment =
                                        Was(RiskAssessment(data))]
            /\ data' = [columns |-> data.columns \union {"Total_Risk_Score"},
                        rows |-> [i \in 1..Len(data.rows) |->
                           [c \in DOMAIN data.rows[i]
                                    \union {"Total_Risk_Score"} |->
                              IF c = "Total_Risk_Score"
                              THEN risk_factors(data)[i].Total_Risk_Score
                              ELSE data.rows[i][c]]]]
       ELSE /\ ret' = Raised("get_risk_assessment", "KeyError")
            /\ seen' = seen
            /\ data' = data
    /\ UNCHANGED <<file, product_metrics, supplier_metrics,
                   logistics_metrics, quicksort_ties>>

get_risk_assessment ==
    /\ invoked' = invoked \union {"get_risk_assessment"}
    /\ IF RiskColumns \subseteq data.columns
       THEN /\ ret' = Returned("get_risk_assessment", RiskAssessment(data))
            /\ seen' = [seen EXCEPT !.get_risk_assessment =
                                        Was(RiskAssessment(data))]
       ELSE /\ ret' = Raised("get_risk_assessment", "KeyError")
            /\ seen' = seen
    /\ UNCHANGED <<file, data, product_metrics, supplier_metrics,
                   logistics_metrics, quicksort_ties>>

generate_recommendations ==
    /\ invoked' = invoked \union {"generate_recommendations"}
    /\ IF RecommendationColumns \subseteq data.columns
       THEN /\ ret' = Returned("generate_recommendations", Recommendations(data))
            /\ seen' = [seen EXCEPT !.generate_recommendations =
                                        Was(Recommendations(data))]
       ELSE /\ ret' = Raised("generate_recommendations", "KeyError")
            /\ seen' = seen
    /\ UNCHANGED <<file, data, product_metrics, supplier_metrics,
                   logistics_metrics, quicksort_ties>>

generate_summary_report ==
    /\ IF SummaryColumns \subseteq data.columns
       THEN ret' = Returned("generate_summary_report",
                            SummaryReport(data, product_metrics,
                                          supplier_metrics, logistics_metrics))
       ELSE ret' = Raised("generate_summary_report", "KeyError")
    /\ UNCHANGED <<file, data, product_metrics, supplier_metrics,
                   logistics_metrics, seen, invoked, quicksort_ties>>

(* export_report_to_pdf(report, file_name): the title and one line per     *)
(* overall metric go to the file; writable says whether file_name can be   *)
(* written                                                                 *)
export_report_to_pdf(report, writable) ==
    /\ IF writable
       THEN ret' = Returned("export_report_to_pdf",
                            <<"Supply Chain Summary Report",
                              report.overall_metrics>>)
       ELSE ret' = Raised("export_report_to_pdf", "OSError")
    /\ UNCHANGED <<file, data, product_metrics, supplier_metrics,
                   logistics_metrics, seen, invoked, quicksort_ties>>

(* visualize_data: four plots of self.data; nothing is stored *)
visualize_data ==
    /\ IF VisualizeColumns \subseteq data.columns
       THEN ret' = Returned("visualize_data", None)
       ELSE ret' = Raised("visualize_data", "KeyError")
    /\ UNCHANGED <<file, data, product_metrics, supplier_metrics,
                   logistics_metrics, seen, invoked, quicksort_ties>>

-----------------------------------------------------------------------------
(* A caller of the class: an analyzer built from a table with every        *)
(* column, then any method at any time.                                    *)

Builds == {"kept", "reversed"}

InitInstance(tables) ==
    /\ file \in {OnDisk(t) : t \in tables}
    /\ Constructed(file)
    /\ invoked = {}
    /\ ret = Returned("__init__", None)
    /\ seen = [get_risk_assessment |-> NotCalled,
               generate_recommendations |-> NotCalled]
    /\ quicksort_ties \in Builds
    /\ pc = "api"

Init == InitInstance(ApiTables)

Caller == pc = "api" /\ UNCHANGED pc

HoldsReport == ret.method = "generate_summary_report" /\ ret.raised = ""

Next ==
    \/ Caller /\ analyze_product_performance
    \/ Caller /\ analyze_supplier_performance
    \/ Caller /\ analyze_logistics
    \/ Caller /\ get_risk_assessment
    \/ Caller /\ generate_recommendations
    \/ Caller /\ generate_summary_report
    \/ Caller /\ HoldsReport
              /\ \E writable \in BOOLEAN : export_report_to_pdf(ret.value, writable)
    \/ Caller /\ visualize_data

Spec == Init /\ [][Next]_vars

(* One call on a freshly built analyzer, over the wider set of tables. *)

InitCall == InitInstance(Tables)

Fresh == ret.method = "__init__"

NextCall ==
    \/ Fresh /\ Caller /\ analyze_product_performance
    \/ Fresh /\ Caller /\ analyze_supplier_performance
    \/ Fresh /\ Caller /\ analyze_logistics
    \/ Fresh /\ Caller /\ get_risk_assessment
    \/ Fresh /\ Caller /\ generate_recommendations
    \/ Fresh /\ Caller /\ generate_summary_report

SpecCall == InitCall /\ [][NextCall]_vars

-----------------------------------------------------------------------------
(* src/main.py: the statements of the script in order.  An exception no    *)
(* statement catches ends the script.                                      *)

After(next) == pc' = IF ret'.raised = "" THEN next ELSE "exit"

InitMain ==
    /\ file \in Files
    /\ data = None
    /\ product_metrics = None
    /\ supplier_metrics = None
    /\ logistics_metrics = None
    /\ invoked = {}
    /\ ret = Returned("", None)
    /\ seen = [get_risk_assessment |-> NotCalled,
               generate_recommendations |-> NotCalled]
    /\ quicksort_ties \in Builds
    /\ pc = "L5"

(* line 5: my_analyzer = SupplyChainAnalyzer(data_path) *)
main_L5 ==
    /\ pc = "L5"
    /\ IF LoadFails(file)
       THEN /\ data' = data
            /\ ret' = Raised("__init__", "FileNotFoundError")
       ELSE /\ data' = read_csv(file)
            /\ ret' = Returned("__init__", None)
    /\ product_metrics' = None
    /\ supplier_metrics' = None
    /\ logistics_metrics' = None
    /\ After("L7")
    /\ UNCHANGED <<file, seen, invoked, quicksort_ties>>

main_L7 == pc = "L7" /\ analyze_logistics /\ After("L9")

main_L9 == pc = "L9" /\ analyze_product_performance /\ After("L11")

main_L11 == pc = "L11" /\ analyze_supplier_performance /\ After("L13")

main_L13 == pc = "L13" /\ generate_recommendations /\ After("L15")

main_L15 == pc = "L15" /\ get_risk_assessment /\ After("L17")

main_L17 == pc = "L17" /\ visualize_data /\ After("L19")

main_L19 == pc = "L19" /\ generate_summary_report /\ After("L21")

(* line 21: print(report) *)
main_L21 ==
    /\ pc = "L21"
    /\ pc' = "done"
    /\ UNCHANGED <<file, data, product_metrics, supplier_metrics,
                   logistics_metrics, ret, seen, invoked, quicksort_ties>>

NextMain ==
    \/ main_L5
    \/ main_L7
    \/ main_L9
    \/ main_L11
    \/ main_L13
    \/ main_L15
    \/ main_L17
    \/ main_L19
    \/ main_L21

SpecMain == InitMain /\ [][NextMain]_vars


-----------------------------------------------------------------------------
(* Properties *)

ReturnedBy(method) == ret.method = method /\ ret.raised = ""

(* the number of the four risk predicates that hold for row i of the       *)
(* loaded table, each stated on the cells of the row                       *)
PredicatesHolding(i) ==
    LET r == data.rows[i]
        n == Len(data.rows)
        total == SeqSum([k \in 1..n |-> data.rows[k].Manufacturing_costs])
    IN  Cardinality(
            {p \in {"stock", "lead_time", "quality", "cost"} :
                \/ p = "stock" /\ r.Stock_levels < 20
                \/ p = "lead_time" /\ r.Lead_time > 20
                \/ p = "quality" /\ r.Defect_rates > 3
                \/ p = "cost" /\ n * r.Manufacturing_costs > total})

(* the row is on every threshold: stock 20, lead time 20, defect rate 3,   *)
(* cost equal to the mean                                                  *)
OnEveryThreshold(i) ==
    LET r == data.rows[i]
        n == Len(data.rows)
    IN  /\ r.Stock_levels = 20
        /\ r.Lead_time = 20
        /\ r.Defect_rates = 3
        /\ n * r.Manufacturing_costs
               = SeqSum([k \in 1..n |-> data.rows[k].Manufacturing_costs])

(* C1: when get_risk_assessment has run, the Total_Risk_Score of every     *)
(* record, returned or not, is the number of the predicates stock < 20,    *)
(* lead time > 20, defect rate > 3 and cost > mean cost that hold for it;  *)
(* it lies in 0..4, and a record on every threshold scores 0.              *)
C1_ScoreCountsPredicates ==
    ReturnedBy("get_risk_assessment") =>
        /\ \A i \in 1..Len(data.rows) :
              /\ risk_factors(data)[i].Total_Risk_Score = PredicatesHolding(i)
              /\ risk_factors(data)[i].Total_Risk_Score \in 0..4
              /\ OnEveryThreshold(i) => risk_factors(data)[i].Total_Risk_Score = 0
        /\ \A j \in 1..Len(ret.value) :
              ret.value[j].Total_Risk_Score = PredicatesHolding(ret.value[j].idx + 1)

(* a record on every threshold beside a returned record that scores 3 *)
C1_Witness ==
    /\ ReturnedBy("get_risk_assessment")
    /\ \E i \in 1..Len(data.rows) : OnEveryThreshold(i)
    /\ \E j \in 1..Len(ret.value) : ret.value[j].Total_Risk_Score = 3

(* C2: get_risk_assessment returns one row for each record whose score is  *)
(* at least 2 and none for a record that scores 0 or 1; each returned row  *)
(* is the record at its index label, and the rows are in source order.     *)
C2_SubsetInOrder ==
    ReturnedBy("get_risk_assessment") =>
        LET out == ret.value
        IN  /\ \A j \in 1..Len(out) :
                  /\ out[j].idx + 1 \in 1..Len(data.rows)
                  /\ out[j].SKU = data.rows[out[j].idx + 1].SKU
            /\ \A i \in 1..Len(data.rows) :
                  Cardinality({j \in 1..Len(out) : out[j].idx = i - 1})
                      = IF PredicatesHolding(i) >= 2 THEN 1 ELSE 0
            /\ \A j, k \in 1..Len(out) : j < k => out[j].idx < out[k].idx

(* the first record scores 1 and is left out, the second is returned *)
C2_Witness ==
    /\ ReturnedBy("get_risk_assessment")
    /\ Len(data.rows) = 2
    /\ PredicatesHolding(1) = 1
    /\ Len(ret.value) = 1
    /\ ret.value[1].idx = 1

(* some record's cost exceeds mean + sample deviation of the costs, by the *)
(* identity SUM (n*v - S)^2 = n * (n * SUM v^2 - S^2)                      *)
SomeCostOutlier ==
    LET n == Len(data.rows)
        S == SeqSum([k \in 1..n |-> data.rows[k].Costs])
        SS == SeqSum([k \in 1..n |-> data.rows[k].Costs * data.rows[k].Costs])
    IN  /\ n >= 2
        /\ \E i \in 1..n :
              LET d == n * data.rows[i].Costs - S
              IN  d > 0 /\ d * d * (n - 1) > n * (n * SS - S * S)

AreasOf(recs) == [j \in 1..Len(recs) |-> recs[j].area]

(* s is t with some elements left out *)
IsSubsequence(s, t) ==
    \E f \in [1..Len(s) -> 1..Len(t)] :
        /\ \A j \in 1..Len(s) : s[j] = t[f[j]]
        /\ \A j, k \in 1..Len(s) : j < k => f[j] < f[k]

(* C3: generate_recommendations holds an Inventory entry (High) exactly    *)
(* when some record has stock < 20, a Quality entry (High) exactly when    *)
(* some record failed inspection, a Logistics entry (Medium) exactly when  *)
(* some record's cost exceeds mean + deviation; each area at most once, in *)
(* the order Inventory, Quality, Logistics; no match gives the empty list. *)
C3_RulesIndependent ==
    ReturnedBy("generate_recommendations") =>
        LET recs == ret.value
            has(area, priority) ==
                \E j \in 1..Len(recs) :
                    recs[j].area = area /\ recs[j].priority = priority
            some(P(_)) == \E i \in 1..Len(data.rows) : P(data.rows[i])
        IN  /\ has("Inventory", "High") <=> some(LAMBDA r : r.Stock_levels < 20)
            /\ has("Quality", "High")
                   <=> some(LAMBDA r : r.Inspection_results = "Fail")
            /\ has("Logistics", "Medium") <=> SomeCostOutlier
            /\ IsSubsequence(AreasOf(recs), <<"Inventory", "Quality", "Logistics">>)
            /\ ( /\ ~some(LAMBDA r : r.Stock_levels < 20)
                 /\ ~some(LAMBDA r : r.Inspection_results = "Fail")
                 /\ ~SomeCostOutlier ) => recs = <<>>

(* all three rules match at once *)
C3_Witness ==
    /\ ReturnedBy("generate_recommendations")
    /\ AreasOf(ret.value) = <<"Inventory", "Quality", "Logistics">>

CountWhere(P(_)) == Cardinality({i \in 1..Len(data.rows) : P(data.rows[i])})

(* the number of records whose cost exceeds mean + sample deviation *)
CostOutliers ==
    LET n == Len(data.rows)
        S == SeqSum([k \in 1..n |-> data.rows[k].Costs])
        SS == SeqSum([k \in 1..n |-> data.rows[k].Costs * data.rows[k].Costs])
    IN  CountWhere(LAMBDA r :
            /\ n >= 2
            /\ n * r.Costs - S > 0
            /\ (n * r.Costs - S) * (n * r.Costs - S) * (n - 1)
                   > n * (n * SS - S * S))

(* C4: the issue text of every recommendation embeds the number of records *)
(* that match its rule in the table as it is at the call, whatever earlier *)
(* analysis calls stored; the Inventory entry reads "Low stock alerts for  *)
(* N SKUs", N the number of records with stock < 20, which is the number   *)
(* of rows of stock_alerts once analyze_product_performance has stored it. *)
C4_IssueEmbedsLiveCount ==
    ReturnedBy("generate_recommendations") =>
        LET lowStock == CountWhere(LAMBDA r : r.Stock_levels < 20)
            failed == CountWhere(LAMBDA r : r.Inspection_results = "Fail")
            text(area) ==
                CASE area = "Inventory" ->
                        "Low stock alerts for " \o ToString(lowStock) \o " SKUs"
                  [] area = "Quality" ->
                        "Quality failures in " \o ToString(failed) \o " shipments"
                  [] area = "Logistics" ->
                        "High shipping costs on " \o ToString(CostOutliers)
                        \o " routes"
        IN  /\ \A j \in 1..Len(ret.value) :
                  ret.value[j].issue = text(ret.value[j].area)
            /\ lowStock > 0 => \E j \in 1..Len(ret.value) :
                                  ret.value[j].area = "Inventory"
            /\ product_metrics # None =>
                  Len(product_metrics.stock_alerts) = lowStock

(* recommendations asked for after the products were analysed, two SKUs   *)
(* low                                                                     *)
C4_Witness ==
    /\ ReturnedBy("generate_recommendations")
    /\ product_metrics # None
    /\ Len(product_metrics.stock_alerts) = 2
    /\ \E j \in 1..Len(ret.value) :
          ret.value[j].issue = "Low stock alerts for 2 SKUs"

C7_StockAlertsExact ==
    ReturnedBy("analyze_product_performance") =>
        LET alerts == product_metrics.stock_alerts
        IN  /\ \A i \in 1..Len(data.rows) :
                  Cardinality({j \in 1..Len(alerts) : alerts[j].idx = i - 1})
                      = IF data.rows[i].Stock_levels < 20 THEN 1 ELSE 0
            /\ \A j \in 1..Len(alerts) :
                  /\ alerts[j].idx + 1 \in 1..Len(data.rows)
                  /\ alerts[j].SKU = data.rows[alerts[j].idx + 1].SKU
                  /\ alerts[j].Stock_levels
                         = data.rows[alerts[j].idx + 1].Stock_levels
            /\ \A j, k \in 1..Len(alerts) : j < k => alerts[j].idx < alerts[k].idx
            /\ (\A i \in 1..Len(data.rows) : data.rows[i].Stock_levels >= 20)
                   => alerts = <<>>

(* a record with stock 20 is passed over, the record after it is an alert *)
C7_Witness ==
    /\ ReturnedBy("analyze_product_performance")
    /\ Len(data.rows) = 2
    /\ data.rows[1].Stock_levels = 20
    /\ Len(product_metrics.stock_alerts) = 1
    /\ product_metrics.stock_alerts[1].idx = 1

KeysOf(table) == [g \in 1..Len(table) |-> table[g].key]

(* the keys of the loaded table under the columns by, each once, in the    *)
(* order in which they first occur                                         *)
FirstAppearance(by) ==
    LET n == Len(data.rows)
        keyAt(i) == [j \in 1..Len(by) |-> data.rows[i][by[j]]]
        firsts == SelectSeq([i \in 1..n |-> i],
                            LAMBDA i : \A j \in 1..(i - 1) : keyAt(j) # keyAt(i))
    IN  [p \in 1..Len(firsts) |-> keyAt(firsts[p])]

AsSet(s) == {s[j] : j \in 1..Len(s)}

(* the keys are the distinct values of the columns by, each once, in       *)
(* ascending order                                                         *)
DistinctAscending(keys, by) ==
    /\ AsSet(keys) = AsSet(FirstAppearance(by))
    /\ \A j, k \in 1..Len(keys) : j < k => KeyLess(keys[j], keys[k])

(* the five grouped tables, each with its group-by columns, of the slots   *)
(* that have been computed                                                 *)
GroupedTables ==
    (IF product_metrics = None THEN {} ELSE
        {<<product_metrics.category_performance, <<"Product_type">> >>})
    \union
    (IF supplier_metrics = None THEN {} ELSE
        {<<supplier_metrics.supplier_performance, <<"Supplier_name">> >>})
    \union
    (IF logistics_metrics = None THEN {} ELSE
        {<<logistics_metrics.carrier_performance, <<"Shipping_carriers">> >>,
         <<logistics_metrics.route_efficiency, <<"Routes">> >>,
         <<logistics_metrics.transport_cost_analysis,
           <<"Transportation_modes", "Routes">> >>})

(* C8 as claimed: in every grouped table the keys are the distinct values  *)
(* of the group-by columns in the order of their first appearance in the   *)
(* input.                                                                  *)
C8_KeysInFirstAppearanceOrder ==
    \A t \in GroupedTables : KeysOf(t[1]) = FirstAppearance(t[2])

(* C8 as amended: in every grouped table the keys are the distinct values  *)
(* of the group-by columns, each once, in ascending sorted order (pairs    *)
(* compared left to right), whatever the order of the input rows.          *)
C8_KeysDistinctAscending ==
    \A t \in GroupedTables : DistinctAscending(KeysOf(t[1]), t[2])

(* logistics analysed on a table whose (mode, route) pairs first occur in  *)
(* an order that is not the sorted one                                     *)
C8_Witness ==
    /\ ReturnedBy("analyze_logistics")
    /\ Len(logistics_metrics.transport_cost_analysis) = 2
    /\ KeysOf(logistics_metrics.transport_cost_analysis)
           # FirstAppearance(<<"Transportation_modes", "Routes">>)

(* the columns a method reads *)
ReadBy(method) ==
    CASE method = "analyze_product_performance" -> ProductColumns
      [] method = "analyze_supplier_performance" -> SupplierColumns
      [] method = "analyze_logistics" -> LogisticsColumns
      [] method = "get_risk_assessment" -> RiskColumns
      [] method = "generate_recommendations" -> RecommendationColumns
      [] method = "generate_summary_report" -> SummaryColumns
      [] method = "visualize_data" -> VisualizeColumns
      [] OTHER -> {}

C10_Idempotent ==
    [][ /\ (ret'.method = "analyze_product_performance" /\ ret'.again)
              => product_metrics' = product_metrics
        /\ (ret'.method = "analyze_supplier_performance" /\ ret'.again)
              => supplier_metrics' = supplier_metrics
        /\ (ret'.method = "analyze_logistics" /\ ret'.again)
              => logistics_metrics' = logistics_metrics
        /\ (ret'.method = "get_risk_assessment" /\ ret'.again)
              => /\ seen.get_risk_assessment.called
                 /\ ret'.value = seen.get_risk_assessment.value
        /\ (ret'.method = "generate_recommendations" /\ ret'.again)
              => /\ seen.generate_recommendations.called
                 /\ ret'.value = seen.generate_recommendations.value
      ]_vars

(* analyze_product_performance invoked again, after the other analyses and *)
(* the risk assessment, on a table with a low stock                        *)
C10_Witness ==
    /\ ret.method = "analyze_product_performance" /\ ret.again
    /\ supplier_metrics # None
    /\ logistics_metrics # None
    /\ seen.get_risk_assessment.called
    /\ product_metrics.stock_alerts # <<>>

(* C11: no method changes the loaded table; analyze_product_performance    *)
(* changes no slot but product_metrics, analyze_supplier_performance none  *)
(* but supplier_metrics, analyze_logistics none but logistics_metrics;     *)
(* get_risk_assessment, generate_recommendations, generate_summary_report  *)
(* and export_report_to_pdf change none of the three slots, the export     *)
(* also when it fails.                                                     *)
C11_FrameEffects ==
    [][ /\ data' = data
        /\ ret'.method = "analyze_product_performance"
              => /\ supplier_metrics' = supplier_metrics
                 /\ logistics_metrics' = logistics_metrics
        /\ ret'.method = "analyze_supplier_performance"
              => /\ product_metrics' = product_metrics
                 /\ logistics_metrics' = logistics_metrics
        /\ ret'.method = "analyze_logistics"
              => /\ product_metrics' = product_metrics
                 /\ supplier_metrics' = supplier_metrics
        /\ ret'.method \in {"get_risk_assessment", "generate_recommendations",
                            "generate_summary_report", "export_report_to_pdf"}
              => /\ product_metrics' = product_metrics
                 /\ supplier_metrics' = supplier_metrics
                 /\ logistics_metrics' = logistics_metrics
      ]_vars

(* an export that failed after the three analyses and the risk assessment  *)
(* had run on a table with records: the three slots still hold the results *)
C11_Witness ==
    /\ ret.method = "export_report_to_pdf" /\ ret.raised = "OSError"
    /\ data.rows # <<>>
    /\ product_metrics # None
    /\ supplier_metrics # None
    /\ logistics_metrics # None
    /\ seen.get_risk_assessment.called

=============================================================================
